---- MODULE Spec2Model ----
(***************************************************************************)
(* Model of netlify/functions/gemini-proxy.js: the relay handler that      *)
(* forwards a prompt to the Gemini API with a server-held key.             *)
(*                                                                         *)
(* The file assigns exports.handler twice (line 14 and line 133); the      *)
(* second assignment overwrites the first, so the handler the module       *)
(* exports is the function of lines 133-214.  That function is modelled.   *)
(*                                                                         *)
(* A JavaScript string is a sequence of tokens (a "text"): punctuation,    *)
(* whitespace, literals, numbers, quoted strings (holding a text) and      *)
(* opaque words.  JSON.parse and JSON.stringify work on these texts.       *)
(***************************************************************************)
EXTENDS Integers, Sequences, FiniteSets

\* ------------------------------------------------------------------ texts

Tok(k, c, n, s) == [k |-> k, c |-> c, n |-> n, s |-> s]
P(c) == Tok("p", c, 0, <<>>)
WS == Tok("ws", " ", 0, <<>>)
Lit(c) == Tok("lit", c, 0, <<>>)
Num(n) == Tok("num", "", n, <<>>)
Str(s) == Tok("str", "", 0, s)
W(c) == Tok("w", c, 0, <<>>)
Txt(c) == <<W(c)>>

\* -------------------------------------------------------- JavaScript values

Undefined == [t |-> "undefined"]
JNull == [t |-> "null"]
JBool(b) == [t |-> "bool", b |-> b]
JNum(n) == [t |-> "num", n |-> n]
JStr(s) == [t |-> "str", s |-> s]
JArr(a) == [t |-> "arr", a |-> a]
JObj(o) == [t |-> "obj", o |-> o]
Member(key, val) == [key |-> key, val |-> val]

\* !v
Truthy(v) ==
    CASE v.t = "undefined" -> FALSE
      [] v.t = "null" -> FALSE
      [] v.t = "bool" -> v.b
      [] v.t = "num" -> v.n # 0
      [] v.t = "str" -> v.s # <<>>
      [] OTHER -> TRUE

\* v[key] for an own property; the keys used here ("prompt", "error",
\* "message") are own properties of objects only.
HasKey(o, key) == \E i \in 1..Len(o) : o[i].key = key
Lookup(o, key) == o[CHOOSE i \in 1..Len(o) : o[i].key = key].val
GetProp(v, key) ==
    IF v.t = "obj" /\ HasKey(v.o, key) THEN Lookup(v.o, key) ELSE Undefined
\* reading a property of null or undefined throws a TypeError
PropThrows(v) == v.t \in {"null", "undefined"}

\* obj[key] = val, keeping the position of a key already present
PutMember(o, key, val) ==
    IF HasKey(o, key)
    THEN [i \in 1..Len(o) |-> IF o[i].key = key THEN Member(key, val) ELSE o[i]]
    ELSE Append(o, Member(key, val))

\* ------------------------------------------------------------- JSON.parse

ParseFail == [ok |-> FALSE, v |-> Undefined, i |-> 0]
ParseOk(v, i) == [ok |-> TRUE, v |-> v, i |-> i]
IsP(t, i, c) == i <= Len(t) /\ t[i].k = "p" /\ t[i].c = c

RECURSIVE ParseValue(_, _)
RECURSIVE ParseElems(_, _, _)
RECURSIVE ParseMembers(_, _, _)

ParseValue(t, i) ==
    IF i > Len(t) THEN ParseFail
    ELSE CASE t[i].k = "lit" /\ t[i].c = "null" -> ParseOk(JNull, i + 1)
           [] t[i].k = "lit" /\ t[i].c = "true" -> ParseOk(JBool(TRUE), i + 1)
           [] t[i].k = "lit" /\ t[i].c = "false" -> ParseOk(JBool(FALSE), i + 1)
           [] t[i].k = "num" -> ParseOk(JNum(t[i].n), i + 1)
           [] t[i].k = "str" -> ParseOk(JStr(t[i].s), i + 1)
           [] IsP(t, i, "[") ->
                IF IsP(t, i + 1, "]") THEN ParseOk(JArr(<<>>), i + 2)
                ELSE ParseElems(t, i + 1, <<>>)
           [] IsP(t, i, "{") ->
                IF IsP(t, i + 1, "}") THEN ParseOk(JObj(<<>>), i + 2)
                ELSE ParseMembers(t, i + 1, <<>>)
           [] OTHER -> ParseFail

ParseElems(t, i, acc) ==
    LET r == ParseValue(t, i) IN
    IF ~r.ok THEN ParseFail
    ELSE IF IsP(t, r.i, ",") THEN ParseElems(t, r.i + 1, Append(acc, r.v))
    ELSE IF IsP(t, r.i, "]") THEN ParseOk(JArr(Append(acc, r.v)), r.i + 1)
    ELSE ParseFail

ParseMembers(t, i, acc) ==
    IF ~(i <= Len(t) /\ t[i].k = "str" /\ IsP(t, i + 1, ":")) THEN ParseFail
    ELSE LET r == ParseValue(t, i + 2) IN
         IF ~r.ok THEN ParseFail
         ELSE IF IsP(t, r.i, ",")
              THEN ParseMembers(t, r.i + 1, PutMember(acc, t[i].s, r.v))
         ELSE IF IsP(t, r.i, "}")
              THEN ParseOk(JObj(PutMember(acc, t[i].s, r.v)), r.i + 1)
         ELSE ParseFail

NotWs(tk) == tk.k # "ws"

\* JSON.parse(text): [ok, v]; ~ok is the SyntaxError it throws.  Whitespace
\* between tokens is insignificant; trailing tokens are an error.
JSONParse(text) ==
    LET t == SelectSeq(text, NotWs)
        r == ParseValue(t, 1)
    IN  IF r.ok /\ r.i = Len(t) + 1 THEN [ok |-> TRUE, v |-> r.v]
        ELSE [ok |-> FALSE, v |-> Undefined]

\* --------------------------------------------------------- JSON.stringify

RECURSIVE JSONStringify(_)
RECURSIVE StringifyElems(_, _)
RECURSIVE StringifyMembers(_, _, _)

\* array elements: undefined is written as null
StringifyElems(a, i) ==
    IF i > Len(a) THEN <<>>
    ELSE (IF i > 1 THEN <<P(",")>> ELSE <<>>)
         \o (IF a[i].t = "undefined" THEN <<Lit("null")>> ELSE JSONStringify(a[i]))
         \o StringifyElems(a, i + 1)

\* object members: a member whose value is undefined is left out
StringifyMembers(o, i, first) ==
    IF i > Len(o) THEN <<>>
    ELSE IF o[i].val.t = "undefined" THEN StringifyMembers(o, i + 1, first)
    ELSE (IF first THEN <<>> ELSE <<P(",")>>)
         \o <<Str(o[i].key), P(":")>> \o JSONStringify(o[i].val)
         \o StringifyMembers(o, i + 1, FALSE)

JSONStringify(v) ==
    CASE v.t = "null" -> <<Lit("null")>>
      [] v.t = "bool" -> <<Lit(IF v.b THEN "true" ELSE "false")>>
      [] v.t = "num" -> <<Num(v.n)>>
      [] v.t = "str" -> <<Str(v.s)>>
      [] v.t = "arr" -> <<P("[")>> \o StringifyElems(v.a, 1) \o <<P("]")>>
      [] v.t = "obj" -> <<P("{")>> \o StringifyMembers(v.o, 1, TRUE) \o <<P("}")>>

\* String(v), as a template literal `${v}` computes it
RECURSIVE StringOf(_)
RECURSIVE JoinElems(_, _)
JoinElems(a, i) ==
    IF i > Len(a) THEN <<>>
    ELSE (IF i > 1 THEN <<W(",")>> ELSE <<>>)
         \o (IF a[i].t \in {"null", "undefined"} THEN <<>> ELSE StringOf(a[i]))
         \o JoinElems(a, i + 1)
StringOf(v) ==
    CASE v.t = "undefined" -> Txt("undefined")
      [] v.t = "null" -> <<Lit("null")>>
      [] v.t = "bool" -> <<Lit(IF v.b THEN "true" ELSE "false")>>
      [] v.t = "num" -> <<Num(v.n)>>
      [] v.t = "str" -> v.s
      [] v.t = "arr" -> JoinElems(v.a, 1)
      [] v.t = "obj" -> Txt("[object Object]")

\* does the text `needle` occur in `text`, also inside its quoted strings
RECURSIVE Contains(_, _)
Contains(text, needle) ==
    \/ \E i \in 1..Len(text) :
          /\ i + Len(needle) - 1 <= Len(text)
          /\ SubSeq(text, i, i + Len(needle) - 1) = needle
    \/ \E i \in 1..Len(text) : text[i].k = "str" /\ Contains(text[i].s, needle)

\* ------------------------------------------------------------ the handler

JsonHeaders == {[name |-> "Content-Type", value |-> "application/json"]}
NoHeaders == {}
Response(statusCode, headers, bodyValue) ==
    [statusCode |-> statusCode, headers |-> headers, body |-> JSONStringify(bodyValue)]
ErrorBody(message) == JObj(<<Member(Txt("error"), JStr(message))>>)

JSError(name, message) == [name |-> name, message |-> message]
\* how console.error renders an Error: its name and its message
ErrorText(e) == <<W(e.name), W(": ")>> \o e.message

Return(resp, lines) == [kind |-> "return", resp |-> resp, log |-> lines]
Throw(e, lines) == [kind |-> "throw", error |-> e, log |-> lines]
Fetch(request, lines) == [kind |-> "fetch", req |-> request, log |-> lines]

\* a variant that turns away GET only
MethodNotAllowed_OnlyGet(event) == event.httpMethod = "GET"

\* line 135
MethodNotAllowed(event) == event.httpMethod # "POST"

\* a variant that reads body.prompt after the try block, where nothing catches
\* the TypeError of a null body
ReadPrompt_OutsideTry(event) ==
    LET parsed == JSONParse(StringOf(event.body)) IN
    IF ~parsed.ok
    THEN [thrown |-> TRUE, caught |-> TRUE, promptText |-> Undefined,
          error |-> JSError("SyntaxError", Txt("Unexpected token in JSON"))]
    ELSE IF PropThrows(parsed.v)
    THEN [thrown |-> TRUE, caught |-> FALSE, promptText |-> Undefined,
          error |-> JSError("TypeError", Txt("Cannot read properties of null (reading 'prompt')"))]
    ELSE [thrown |-> FALSE, caught |-> FALSE, promptText |-> GetProp(parsed.v, Txt("prompt")),
          error |-> JSError("", <<>>)]

\* lines 144-146, the body of the try: JSON.parse(event.body) coerces its
\* argument to a string, and body.prompt throws when body is null
ReadPrompt(event) ==
    LET parsed == JSONParse(StringOf(event.body)) IN
    IF ~parsed.ok
    THEN [thrown |-> TRUE, caught |-> TRUE, promptText |-> Undefined,
          error |-> JSError("SyntaxError", Txt("Unexpected token in JSON"))]
    ELSE IF PropThrows(parsed.v)
    THEN [thrown |-> TRUE, caught |-> TRUE, promptText |-> Undefined,
          error |-> JSError("TypeError", Txt("Cannot read properties of null (reading 'prompt')"))]
    ELSE [thrown |-> FALSE, caught |-> FALSE, promptText |-> GetProp(parsed.v, Txt("prompt")),
          error |-> JSError("", <<>>)]

\* a variant that tests GEMINI_API_KEY === undefined
CredentialMissing_OnlyUndefined(key) == key = Undefined

\* line 158
CredentialMissing(key) == ~Truthy(key)

\* a variant that tests promptText === undefined
PromptMissing_OnlyUndefined(promptText) == promptText = Undefined

\* line 166
PromptMissing(promptText) == ~Truthy(promptText)

\* lines 174-175
Payload(promptText) ==
    JObj(<<Member(Txt("contents"),
        JArr(<<JObj(<<Member(Txt("role"), JStr(Txt("user"))),
                      Member(Txt("parts"),
                             JArr(<<JObj(<<Member(Txt("text"), promptText)>>)>>))>>)>>))>>)

\* line 176
GeminiApiUrl(key) ==
    <<W("https://generativelanguage.googleapis.com/v1beta/models/gemini-2.0-flash:generateContent?key=")>>
    \o StringOf(key)

\* lines 183-187
UpstreamRequest(key, promptText) ==
    [url |-> GeminiApiUrl(key), method |-> "POST", headers |-> JsonHeaders,
     body |-> JSONStringify(Payload(promptText))]

\* lines 135-187: the handler from its entry to the await of fetch
HandlerEntry(event, key) ==
    IF MethodNotAllowed(event)
    THEN Return(Response(405, NoHeaders, ErrorBody(Txt("Method Not Allowed"))), <<>>)
    ELSE LET rp == ReadPrompt(event) IN
    IF rp.thrown /\ ~rp.caught THEN Throw(rp.error, <<>>)
    ELSE IF rp.thrown
    THEN Return(Response(400, NoHeaders, ErrorBody(Txt("Bad request: Could not parse JSON body."))),
                << <<W("Error parsing request body:")>> \o ErrorText(rp.error) >>)
    ELSE IF CredentialMissing(key)
    THEN Return(Response(500, NoHeaders, ErrorBody(Txt("API key not configured on the server."))),
                << Txt("GEMINI_API_KEY not configured in Netlify environment variables.") >>)
    ELSE IF PromptMissing(rp.promptText)
    THEN Return(Response(400, NoHeaders, ErrorBody(Txt("No prompt provided in the request body."))),
                <<>>)
    ELSE Fetch(UpstreamRequest(key, rp.promptText), <<>>)

\* lines 207-213: the catch around the upstream call and its translation
CatchHandler(error) ==
    Return(Response(500, NoHeaders,
                    ErrorBody(<<W("Function Execution Error: ")>> \o error.message)),
           << <<W("Error in Netlify function execution:")>> \o ErrorText(error) >>)

\* a variant that takes only status 200 for a success
ResponseOk_Only200(status) == status = 200

\* geminiResponse.ok
ResponseOk(status) == status >= 200 /\ status <= 299

\* line 193: geminiData.error?.message || 'Unknown Gemini API error'
ErrorMessage(geminiData) ==
    LET err == GetProp(geminiData, Txt("error"))
        message == IF PropThrows(err) THEN Undefined ELSE GetProp(err, Txt("message"))
    IN  IF Truthy(message) THEN message ELSE JStr(Txt("Unknown Gemini API error"))

\* lines 191-205, inside the try: geminiData is the parsed upstream body
Translate(status, geminiData) ==
    IF ~ResponseOk(status)
    THEN LET line == <<W("Gemini API Error Response:")>> \o JSONStringify(geminiData) IN
         IF PropThrows(geminiData)
         THEN LET r == CatchHandler(JSError("TypeError",
                          Txt("Cannot read properties of null (reading 'error')")))
              IN  Return(r.resp, <<line>> \o r.log)
         ELSE Return(Response(status, NoHeaders,
                        ErrorBody(<<W("Gemini API Error: ")>> \o StringOf(ErrorMessage(geminiData)))),
                     <<line>>)
    ELSE Return(Response(200, JsonHeaders, geminiData), <<>>)

\* line 183: the message fetch rejects with on a transport failure, by the
\* kind of failure; node-fetch names the request URL in most of them
FetchFailures == {"refused", "timeout", "hangup"}
FetchErrorMessage(failure, url) ==
    CASE failure = "refused" ->
           <<W("request to ")>> \o url \o <<W(" failed, reason: connect ECONNREFUSED")>>
      [] failure = "timeout" -> <<W("network timeout at: ")>> \o url
      [] failure = "hangup" -> Txt("socket hang up")

\* line 189: the message geminiResponse.json() rejects with when the body is
\* not JSON: node-fetch names the response URL, a built-in fetch does not
FetchLibraries == {"node-fetch", "builtin"}
InvalidJsonMessage(library, url) ==
    IF library = "node-fetch"
    THEN <<W("invalid json response body at ")>> \o url \o <<W(" reason: Unexpected token")>>
    ELSE Txt("Unexpected token in JSON")

\* line 189: the message geminiResponse.json() rejects with when the body
\* stream breaks
BodyFailures == {"premature close"}
BodyErrorMessage(failure, url) ==
    <<W("Invalid response body while trying to fetch ")>> \o url \o <<W(": "), W(failure)>>

\* ------------------------------------------------------------- the inputs

MaxInvocations == 2

Obj1(key, val) == <<P("{"), Str(Txt(key)), P(":")>> \o val \o <<P("}")>>

Methods == {"POST", "GET", "DELETE"}

\* event.body: absent, null, or a string
RequestBodies ==
    {Undefined, JNull} \cup
    { JStr(t) : t \in
        { <<>>,
          Txt("hello"),
          <<P("{"), Str(Txt("prompt")), P(":")>>,
          <<Lit("null")>>,
          <<Str(Txt("hi"))>>,
          <<P("{"), P("}")>>,
          Obj1("text", <<Str(Txt("hi"))>>),
          Obj1("prompt", <<Str(<<>>)>>),
          Obj1("prompt", <<Lit("null")>>),
          Obj1("prompt", <<Num(0)>>),
          Obj1("prompt", <<Num(5)>>),
          Obj1("prompt", <<Lit("false")>>),
          Obj1("prompt", <<Lit("true")>>),
          Obj1("prompt", <<P("["), P("]")>>),
          Obj1("prompt", <<P("{"), P("}")>>),
          Obj1("prompt", <<Str(Txt("hi"))>>),
          <<P("{"), WS, Str(Txt("prompt")), WS, P(":"), WS, Str(Txt("hi")), WS, P("}")>>,
          <<P("{"), Str(Txt("prompt")), P(":"), Str(Txt("hi")), P(","),
            Str(Txt("prompt")), P(":"), Str(<<>>), P("}")>> } }

\* process.env.GEMINI_API_KEY: unset, empty, or the secret
SecretKey == Txt("AIza-secret")
Keys == {Undefined, JStr(<<>>), JStr(SecretKey)}

UpstreamStatuses == {200, 201, 299, 300, 404, 429, 500}

UpstreamTexts ==
    { <<>>,
      <<W("<html>"), WS, W("Bad Gateway"), WS, W("</html>")>>,
      <<Lit("null")>>,
      <<Num(7)>>,
      <<Str(Txt("plain"))>>,
      <<P("["), Num(1), P(","), Lit("null"), P("]")>>,
      <<P("{"), P("}")>>,
      Obj1("candidates", <<P("["), Str(Txt("hello")), P("]")>>),
      <<P("{"), WS, Str(Txt("candidates")), P(":"), WS, P("["), Str(Txt("hello")), P("]"),
        P(","), WS, Str(Txt("usage")), P(":"), Num(3), WS, P("}")>>,
      Obj1("error", Obj1("message", <<Str(Txt("rate limited"))>>)),
      Obj1("error", Obj1("message", <<Str(<<>>)>>)),
      Obj1("error", Obj1("message", <<Num(5)>>)),
      Obj1("error", Obj1("code", <<Num(429)>>)),
      Obj1("error", <<Str(Txt("oops"))>>),
      Obj1("error", <<Lit("null")>>) }

\* ------------------------------------------------------------- the state

VARIABLES
    key,            \* process.env.GEMINI_API_KEY
    pc,             \* where the running invocation stands
    event,          \* the event of the latest invocation
    request,        \* the upstream request of the latest invocation
    upstream,       \* what the upstream did with it
    response,       \* what the latest invocation returned
    log,            \* the console lines of the latest invocation
    invocations,    \* handler invocations so far
    upstreamCalls   \* calls of fetch so far

vars == <<key, pc, event, request, upstream, response, log, invocations, upstreamCalls>>

NoEvent == [httpMethod |-> "", body |-> Undefined]
NoRequest == [url |-> <<>>, method |-> "", headers |-> {}, body |-> <<>>]
NoResponse == [statusCode |-> 0, headers |-> {}, body |-> <<>>]
NoUpstream == [stage |-> "none", status |-> 0, text |-> <<>>, error |-> <<>>]

Init ==
    /\ key \in Keys
    /\ pc = "idle"
    /\ event = NoEvent
    /\ request = NoRequest
    /\ upstream = NoUpstream
    /\ response = NoResponse
    /\ log = <<>>
    /\ invocations = 0
    /\ upstreamCalls = 0

\* the handler returns: lines added to the log, the response handed back
Finish(outcome) ==
    /\ pc' = "done"
    /\ response' = outcome.resp
    /\ log' = log \o outcome.log

\* lines 133-187: the platform invokes the handler with an event
Invoke(m, b) ==
    /\ pc \in {"idle", "done", "thrown"}
    /\ invocations < MaxInvocations
    /\ invocations' = invocations + 1
    /\ event' = [httpMethod |-> m, body |-> b]
    /\ upstream' = NoUpstream
    /\ LET outcome == HandlerEntry([httpMethod |-> m, body |-> b], key) IN
       CASE outcome.kind = "return" ->
              /\ pc' = "done"
              /\ response' = outcome.resp
              /\ log' = outcome.log
              /\ request' = NoRequest
              /\ upstreamCalls' = upstreamCalls
         [] outcome.kind = "throw" ->
              /\ pc' = "thrown"
              /\ response' = NoResponse
              /\ log' = outcome.log
              /\ request' = NoRequest
              /\ upstreamCalls' = upstreamCalls
         [] outcome.kind = "fetch" ->
              /\ pc' = "fetching"
              /\ response' = NoResponse
              /\ log' = outcome.log
              /\ request' = outcome.req
              /\ upstreamCalls' = upstreamCalls + 1
    /\ UNCHANGED key

\* line 183 rejects (transport failure), lines 207-213 run
FetchRejects(failure) ==
    /\ pc = "fetching"
    /\ LET message == FetchErrorMessage(failure, request.url) IN
       /\ upstream' = [upstream EXCEPT !.stage = "rejected", !.error = message]
       /\ Finish(CatchHandler(JSError("FetchError", message)))
    /\ UNCHANGED <<key, event, request, invocations, upstreamCalls>>

\* line 183 resolves with the upstream's status line; line 189 awaits the body
FetchResolves(status) ==
    /\ pc = "fetching"
    /\ upstream' = [upstream EXCEPT !.stage = "headers", !.status = status]
    /\ pc' = "reading"
    /\ UNCHANGED <<key, event, request, response, log, invocations, upstreamCalls>>

\* line 189 rejects because the body stream broke, lines 207-213 run
BodyFails(failure) ==
    /\ pc = "reading"
    /\ LET message == BodyErrorMessage(failure, request.url) IN
       /\ upstream' = [upstream EXCEPT !.stage = "bodyfailed", !.error = message]
       /\ Finish(CatchHandler(JSError("FetchError", message)))
    /\ UNCHANGED <<key, event, request, invocations, upstreamCalls>>

\* lines 189-213: the body arrived; json() parses it, the handler translates
\* the result, and the catch takes whatever was thrown on the way
AfterBody(status, text, message) ==
    LET parsed == JSONParse(text) IN
    IF ~parsed.ok THEN CatchHandler(JSError("FetchError", message))
    ELSE Translate(status, parsed.v)

BodyArrives(text, library) ==
    /\ pc = "reading"
    /\ upstream' = [upstream EXCEPT !.stage = "body", !.text = text]
    /\ Finish(AfterBody(upstream.status, text, InvalidJsonMessage(library, request.url)))
    /\ UNCHANGED <<key, event, request, invocations, upstreamCalls>>

Next ==
    \/ \E m \in Methods, b \in RequestBodies : Invoke(m, b)
    \/ \E failure \in FetchFailures : FetchRejects(failure)
    \/ \E status \in UpstreamStatuses : FetchResolves(status)
    \/ \E failure \in BodyFailures : BodyFails(failure)
    \/ \E text \in UpstreamTexts, library \in FetchLibraries : BodyArrives(text, library)

Spec == Init /\ [][Next]_vars

\* ------------------------------------------------------------- the claims

Started == event # NoEvent
IsPost == event.httpMethod = "POST"
RequestJson == JSONParse(StringOf(event.body))
ResponseJson == JSONParse(response.body)
UpstreamJson == JSONParse(upstream.text)
NoUpstreamCall == request = NoRequest /\ upstream = NoUpstream /\ pc \notin {"fetching", "reading"}
HasJsonContentType == [name |-> "Content-Type", value |-> "application/json"] \in response.headers
CredentialAbsent == key \in {Undefined, JStr(<<>>)}
SuccessStatus == upstream.status \in 200..299
NonEmptyStringPrompt(v) ==
    /\ v.t = "obj"
    /\ GetProp(v, Txt("prompt")).t = "str"
    /\ GetProp(v, Txt("prompt")).s # <<>>
ErrorPrefix == <<W("Gemini API Error: ")>>

\* C1: a POST whose body is valid JSON without a non-empty prompt string gets
\* status 400 and no upstream call, whatever the credential configuration.
C1_MissingPromptIs400 ==
    (Started /\ IsPost /\ RequestJson.ok /\ ~NonEmptyStringPrompt(RequestJson.v))
        => (pc = "done" /\ response.statusCode = 400 /\ NoUpstreamCall)

\* C2: when the upstream body is not valid JSON, the handler returns 502 and
\* a JSON body whose details field is the raw upstream text.
C2_NonJsonUpstreamIs502 ==
    (pc = "done" /\ upstream.stage = "body" /\ ~UpstreamJson.ok)
        => /\ response.statusCode = 502
           /\ ResponseJson.ok
           /\ GetProp(ResponseJson.v, Txt("details")) = JStr(upstream.text)

\* C3: an upstream status outside 200-299 with a JSON body is answered with
\* that status, an error field "Gemini API Error: " followed by the upstream
\* error.message (a generic message when absent), and a details field holding
\* the upstream error object.
C3_UpstreamErrorForwarded ==
    (pc = "done" /\ upstream.stage = "body" /\ UpstreamJson.ok /\ ~SuccessStatus)
        => LET err == GetProp(UpstreamJson.v, Txt("error"))
               msg == GetProp(err, Txt("message"))
               field == GetProp(ResponseJson.v, Txt("error"))
           IN  /\ response.statusCode = upstream.status
               /\ ResponseJson.ok
               /\ field.t = "str"
               /\ Len(field.s) >= 1
               /\ SubSeq(field.s, 1, 1) = ErrorPrefix
               /\ (msg.t = "str" /\ msg.s # <<>>) => field.s = ErrorPrefix \o msg.s
               /\ (err.t # "undefined") => GetProp(ResponseJson.v, Txt("details")) = err

\* C4: the credential value appears in no response body and in no log line.
C4_CredentialNeverEchoed ==
    (key.t = "str" /\ key.s # <<>>)
        => /\ ~Contains(response.body, key.s)
           /\ \A i \in 1..Len(log) : ~Contains(log[i], key.s)

\* C5: every response the handler returns carries Content-Type:
\* application/json.
C5_AlwaysJsonContentType ==
    pc = "done" => HasJsonContentType

\* C6: with the credential absent no upstream call is ever issued, and a POST
\* with a valid non-empty prompt gets status 500.
C6_NoCredentialNoCall ==
    CredentialAbsent
        => /\ upstreamCalls = 0
           /\ NoUpstreamCall
           /\ (Started /\ IsPost /\ RequestJson.ok /\ NonEmptyStringPrompt(RequestJson.v))
                 => (pc = "done" /\ response.statusCode = 500)
C6_Witness ==
    /\ key = Undefined
    /\ pc = "done"
    /\ IsPost
    /\ RequestJson.ok
    /\ NonEmptyStringPrompt(RequestJson.v)
    /\ response.statusCode = 500

\* the checks the handler makes before the upstream call, stated on its inputs
PassesChecks(e, k) ==
    /\ e.httpMethod = "POST"
    /\ LET j == JSONParse(StringOf(e.body)) IN
         j.ok /\ j.v.t # "null" /\ Truthy(GetProp(j.v, Txt("prompt")))
    /\ k.t = "str"
    /\ k.s # <<>>

\* C7: an invocation that passes the method, body, prompt and credential
\* checks issues exactly one upstream call, any other invocation issues none,
\* and no other step issues a call (no retry, no caching).
C7_OneCallPerValidInvocation ==
    [][upstreamCalls' - upstreamCalls =
         IF invocations' = invocations + 1 /\ PassesChecks(event', key) THEN 1 ELSE 0]_vars
C7_Witness ==
    /\ invocations = 2
    /\ upstreamCalls = 2
    /\ pc = "done"
    /\ upstream.stage = "body"

\* C8: an upstream success status (200-299) with a JSON body is answered with
\* 200, Content-Type: application/json, and the serialization of the whole
\* parsed upstream value.
C8_SuccessForwardedWhole ==
    (pc = "done" /\ upstream.stage = "body" /\ SuccessStatus /\ UpstreamJson.ok)
        => /\ response.statusCode = 200
           /\ HasJsonContentType
           /\ response.body = JSONStringify(UpstreamJson.v)
           /\ ResponseJson.ok
           /\ ResponseJson.v = UpstreamJson.v
C8_Witness ==
    /\ pc = "done"
    /\ upstream.stage = "body"
    /\ upstream.status = 299
    /\ UpstreamJson.ok
    /\ UpstreamJson.v.t = "obj"
    /\ Len(UpstreamJson.v.o) = 2
    /\ response.body # upstream.text
    /\ response.statusCode = 200

\* C9: no exception leaves the handler; once the upstream call has resolved
\* or failed the handler has returned, and what it returns has an integer
\* status code and a body that is a JSON text.
C9_NeverThrows ==
    /\ pc # "thrown"
    /\ upstream.stage \in {"rejected", "bodyfailed", "body"} => pc = "done"
    /\ pc = "done" => /\ response.statusCode \in 100..599
                      /\ ResponseJson.ok
C9_Witness ==
    /\ pc = "done"
    /\ event.body = JNull
    /\ IsPost
    /\ response.statusCode = 400

\* C10: a non-POST request gets 405 with an error field, and a POST whose
\* body is not valid JSON gets 400, whatever the body and the credential; in
\* both cases no upstream call is issued.
C10_ValidationPrecedence ==
    /\ (Started /\ ~IsPost)
          => /\ pc = "done"
             /\ response.statusCode = 405
             /\ ResponseJson.ok
             /\ GetProp(ResponseJson.v, Txt("error")).t = "str"
             /\ NoUpstreamCall
    /\ (Started /\ IsPost /\ ~RequestJson.ok)
          => /\ pc = "done"
             /\ response.statusCode = 400
             /\ NoUpstreamCall
C10_Witness ==
    /\ pc = "done"
    /\ event.httpMethod = "DELETE"
    /\ RequestJson.ok
    /\ NonEmptyStringPrompt(RequestJson.v)
    /\ key = JStr(SecretKey)
    /\ response.statusCode = 405
====
